---- MODULE Spec2Model ----
(***************************************************************************)
(* State-machine model of the lending program's instruction handlers      *)
(* (programs/lending/src/instructions/{borrow,withdraw,liquidate}.rs).     *)
(* The Deposit handler and the account layouts (state.rs) are not among    *)
(* the source files; Deposit is modelled from section 4.3 of the           *)
(* specification, the account fields from their uses in the handlers.      *)
(*                                                                         *)
(* Integer widths are scaled: a u64 is U64Bits bits wide, an i64 is a      *)
(* signed U64Bits-bit integer and a u128 is 2*U64Bits bits wide, so that   *)
(* the product of a non-negative price and an amount fits the wide type,   *)
(* as it does in the program.                                              *)
(***************************************************************************)
EXTENDS Integers, Sequences, FiniteSets, TLC

VARIABLES bank, user, vault, clock, last

vars == <<bank, user, vault, clock, last>>

-----------------------------------------------------------------------------
(* Bounds of the model *)

U64Bits == 8
MaxTotal == 2
MaxAmount == 2
MaxClock == 1

-----------------------------------------------------------------------------
(* Fixed-width arithmetic *)

RECURSIVE Pow2(_)
Pow2(n) == IF n = 0 THEN 1 ELSE 2 * Pow2(n - 1)

U64Mod == Pow2(U64Bits)
U128Mod == Pow2(2 * U64Bits)
I64Max == Pow2(U64Bits - 1) - 1

\* Option::None of a checked operation
None == -1

\* `x as u128` of an i64: sign extension, i.e. the value modulo 2^128
AsU128(x) == x % U128Mod

\* `x as u64` of a u128: the low 64 bits
AsU64(x) == IF x = None THEN None ELSE x % U64Mod

\* u128::checked_mul / checked_add / checked_div; a None operand stands for
\* the `?` that already returned MathOverflow
checked_mul(a, b) ==
    IF a = None \/ b = None THEN None
    ELSE IF a * b < U128Mod THEN a * b ELSE None

checked_add(a, b) ==
    IF a = None \/ b = None THEN None
    ELSE IF a + b < U128Mod THEN a + b ELSE None

checked_div(a, b) ==
    IF a = None \/ b = None THEN None
    ELSE IF b = 0 THEN None ELSE a \div b

\* u64::checked_add / checked_sub
checked_add64(a, b) ==
    IF a = None \/ b = None THEN None
    ELSE IF a + b < U64Mod THEN a + b ELSE None

checked_sub64(a, b) ==
    IF a = None \/ b = None THEN None
    ELSE IF a >= b THEN a - b ELSE None

\* The unchecked `*` on u128: exact when the product fits; otherwise the build
\* decides: a panic with overflow checks, the wrapped product without.
Panic == -2

unchecked_mul(a, b, overflow_checks) ==
    IF a * b < U128Mod THEN a * b
    ELSE IF overflow_checks THEN Panic ELSE (a * b) % U128Mod

-----------------------------------------------------------------------------
(* Assets, users, oracle *)

USDC_MINT_ADDRESS == "USDC"
SOL_MINT_ADDRESS == "SOL"
OTHER_MINT == "OTHER"

Assets == {USDC_MINT_ADDRESS, SOL_MINT_ADDRESS}
Mints == Assets \cup {OTHER_MINT}
Users == {"u1", "u2"}

SOL_USD_FEED_ID == "SOL"
USDC_USD_FEED_ID == "USDC"

\* maximum age of a quote, the second argument of get_price_no_older_than
MaximumAge == 60

NoQuote == [price |-> 0, age |-> -1]

Quote(p, a) == [price |-> p, age |-> a]

\* the quote of the feed whatever its age (PriceUpdateV2::get_price_unchecked)
get_price_unchecked(price_update, feed_id) ==
    LET q == price_update[feed_id]
    IN  IF q = NoQuote THEN [ok |-> FALSE, err |-> "PriceUnavailable", price |-> 0]
        ELSE [ok |-> TRUE, err |-> "", price |-> q.price]

\* PriceUpdateV2::get_price_no_older_than as the handlers use it: the quote of
\* the feed, or an error when it is missing or older than the maximum age
get_price_no_older_than(price_update, feed_id) ==
    LET q == price_update[feed_id]
    IN  IF q = NoQuote THEN [ok |-> FALSE, err |-> "PriceUnavailable", price |-> 0]
        ELSE IF q.age > MaximumAge THEN [ok |-> FALSE, err |-> "StalePrice", price |-> 0]
        ELSE [ok |-> TRUE, err |-> "", price |-> q.price]

\* token_interface::transfer_checked out of an account holding `balance`:
\* the token program refuses to overdraw, and may fail for its own reasons
transfer_checked(balance, amount, tok_ok) == tok_ok /\ balance >= amount

Xfer(from, to, mint, amount) ==
    [from |-> from, to |-> to, mint |-> mint, amount |-> amount]

\* the guard every handler that takes an amount starts with
zero_amount_accepted(amount) == FALSE

zero_amount(amount) == amount = 0

-----------------------------------------------------------------------------
(* Account records *)

NewBank(ltv, thr, bonus, cf) ==
    [total_deposits |-> 0, total_deposit_shares |-> 0,
     total_borrows |-> 0, total_borrow_shares |-> 0,
     max_ltv |-> ltv, liquidation_threshold |-> thr,
     liquidation_bonus |-> bonus, liquidation_close_factor |-> cf,
     last_updated |-> 0]

NewUser ==
    [deposited_usdc |-> 0, deposited_usdc_shares |-> 0,
     deposited_sol |-> 0, deposited_sol_shares |-> 0,
     borrowed_usdc |-> 0, borrowed_usdc_shares |-> 0,
     borrowed_sol |-> 0, borrowed_sol_shares |-> 0,
     last_updated |-> 0]

\* the per-asset slots of a User, selected as the handlers' `match` on the mint does
DepositedAmount(usr, mint) ==
    IF mint = USDC_MINT_ADDRESS THEN usr.deposited_usdc ELSE usr.deposited_sol

DepositedShares(usr, mint) ==
    IF mint = USDC_MINT_ADDRESS THEN usr.deposited_usdc_shares ELSE usr.deposited_sol_shares

BorrowedAmount(usr, mint) ==
    IF mint = USDC_MINT_ADDRESS THEN usr.borrowed_usdc ELSE usr.borrowed_sol

BorrowedShares(usr, mint) ==
    IF mint = USDC_MINT_ADDRESS THEN usr.borrowed_usdc_shares ELSE usr.borrowed_sol_shares

SetDeposited(usr, mint, amount, shares) ==
    IF mint = USDC_MINT_ADDRESS
    THEN [usr EXCEPT !.deposited_usdc = amount, !.deposited_usdc_shares = shares]
    ELSE [usr EXCEPT !.deposited_sol = amount, !.deposited_sol_shares = shares]

SetBorrowed_every_slot(usr, mint, amount, shares) ==
    [usr EXCEPT !.borrowed_usdc = amount, !.borrowed_usdc_shares = shares,
                !.borrowed_sol = amount, !.borrowed_sol_shares = shares]

SetBorrowed(usr, mint, amount, shares) ==
    IF mint = USDC_MINT_ADDRESS
    THEN [usr EXCEPT !.borrowed_usdc = amount, !.borrowed_usdc_shares = shares]
    ELSE [usr EXCEPT !.borrowed_sol = amount, !.borrowed_sol_shares = shares]

\* What a handler returns: the result code, the stage it stopped in, its
\* working copies of the accounts and the transfers it invoked.
Outcome(res, stage, bk, bk2, usr, xfers, exact) ==
    [res |-> res, stage |-> stage, bank |-> bk, bank2 |-> bk2, user |-> usr,
     xfers |-> xfers, exact |-> exact]

-----------------------------------------------------------------------------
(* Deposit (specification section 4.3; the handler is not in the sources) *)

\* Mint of section 4.1: 1:1 while the pool is empty, else floor(a * S / D)
mint_shares_rounded_up(amount, total_amount, total_shares) ==
    IF total_amount = 0 \/ total_shares = 0 THEN amount
    ELSE AsU64(checked_div(checked_add(checked_mul(amount, total_shares), total_amount - 1),
                           total_amount))

mint_shares_inverted(amount, total_amount, total_shares) ==
    IF total_amount = 0 \/ total_shares = 0 THEN amount
    ELSE AsU64(checked_div(checked_mul(amount, total_amount), total_shares))

mint_shares(amount, total_amount, total_shares) ==
    IF total_amount = 0 \/ total_shares = 0 THEN amount
    ELSE AsU64(checked_div(checked_mul(amount, total_shares), total_amount))

process_deposit(bk, usr, mint, amount, now, tok_ok) ==
    LET shares == mint_shares(amount, bk.total_deposits, bk.total_deposit_shares)
        xf == <<Xfer("signer", "vault", mint, amount)>>
        d1 == checked_add64(bk.total_deposits, amount)
        s1 == checked_add64(bk.total_deposit_shares, shares)
        ua == checked_add64(DepositedAmount(usr, mint), amount)
        us == checked_add64(DepositedShares(usr, mint), shares)
        bk1 == [bk EXCEPT !.total_deposits = d1]
        bk2 == [bk1 EXCEPT !.total_deposit_shares = s1]
    IN  IF zero_amount(amount) THEN Outcome("ZeroAmount", "Validate", bk, bk, usr, <<>>, TRUE)
        ELSE IF mint \notin Assets THEN Outcome("UnsupportedAsset", "Validate", bk, bk, usr, <<>>, TRUE)
        ELSE IF ~tok_ok THEN Outcome("TransferFailed", "Transfer", bk, bk, usr, xf, TRUE)
        ELSE IF shares = None THEN Outcome("MathOverflow", "Compute", bk, bk, usr, xf, TRUE)
        ELSE IF d1 = None THEN Outcome("MathOverflow", "Commit", bk, bk, usr, xf, TRUE)
        ELSE IF s1 = None THEN Outcome("MathOverflow", "Commit", bk1, bk1, usr, xf, TRUE)
        ELSE IF ua = None \/ us = None THEN Outcome("MathOverflow", "Commit", bk2, bk2, usr, xf, TRUE)
        ELSE Outcome("Ok", "Done",
                     [bk2 EXCEPT !.last_updated = now], bk2,
                     [SetDeposited(usr, mint, ua, us) EXCEPT !.last_updated = now],
                     xf, TRUE)

-----------------------------------------------------------------------------
(* Borrow (borrow.rs) *)

\* step 3: the borrowing power, total collateral * max_ltv / 100
borrowable_usd_value(total_collateral_value, max_ltv) ==
    checked_div(checked_mul(total_collateral_value, max_ltv), 100)

\* step 5: the final check of collateral against the request
exceeds_borrowable_or_equal(borrowable, requested_borrow_value) ==
    borrowable <= requested_borrow_value

exceeds_borrowable(borrowable, requested_borrow_value) ==
    borrowable < requested_borrow_value

\* step 7: the borrow shares minted for `amount`
users_borrow_shares_inverted(bk, amount) ==
    IF bk.total_borrows = 0 \/ bk.total_borrow_shares = 0 THEN amount
    ELSE AsU64(checked_div(checked_mul(amount, bk.total_borrows), bk.total_borrow_shares))

users_borrow_shares(bk, amount) ==
    IF bk.total_borrows = 0 \/ bk.total_borrow_shares = 0 THEN amount
    ELSE AsU64(checked_div(checked_mul(amount, bk.total_borrow_shares), bk.total_borrows))

\* The `match` arm `key == usdc_price.get_price_unchecked().price_expo` of
\* borrow.rs compares the mint with a price exponent; it is read as the USDC
\* arm it stands for, as in the other two handlers.
process_borrow(bk, usr, mint_to_borrow, amount, price_update, now, vault_balance, tok_ok) ==
    LET sol_price == get_price_no_older_than(price_update, SOL_USD_FEED_ID)
        usdc_price == get_price_no_older_than(price_update, USDC_USD_FEED_ID)
        sol_collateral_value == checked_mul(AsU128(sol_price.price), usr.deposited_sol)
        usdc_collateral_value == checked_mul(AsU128(usdc_price.price), usr.deposited_usdc)
        total_collateral_value == checked_add(sol_collateral_value, usdc_collateral_value)
        borrowable == borrowable_usd_value(total_collateral_value, bk.max_ltv)
        requested_borrow_asset_price ==
            IF mint_to_borrow = USDC_MINT_ADDRESS THEN usdc_price.price ELSE sol_price.price
        requested_borrow_value == checked_mul(AsU128(requested_borrow_asset_price), amount)
        xf == <<Xfer("vault", "signer", mint_to_borrow, amount)>>
        shares_wide ==
            IF bk.total_borrows = 0 \/ bk.total_borrow_shares = 0 THEN amount
            ELSE checked_div(checked_mul(amount, bk.total_borrow_shares), bk.total_borrows)
        shares == users_borrow_shares(bk, amount)
        b1 == checked_add64(bk.total_borrows, amount)
        s1 == checked_add64(bk.total_borrow_shares, shares)
        bk1 == [bk EXCEPT !.total_borrows = b1]
        bk2 == [bk1 EXCEPT !.total_borrow_shares = s1]
        ua == checked_add64(BorrowedAmount(usr, mint_to_borrow), amount)
        us == checked_add64(BorrowedShares(usr, mint_to_borrow), shares)
        usr1 == SetBorrowed(usr, mint_to_borrow, ua, BorrowedShares(usr, mint_to_borrow))
        exact == /\ sol_collateral_value = sol_price.price * usr.deposited_sol
                 /\ usdc_collateral_value = usdc_price.price * usr.deposited_usdc
                 /\ requested_borrow_value = requested_borrow_asset_price * amount
                 /\ shares = shares_wide
    IN  IF zero_amount(amount) THEN Outcome("ZeroAmount", "Validate", bk, bk, usr, <<>>, TRUE)
        ELSE IF ~sol_price.ok THEN Outcome(sol_price.err, "Oracle", bk, bk, usr, <<>>, TRUE)
        ELSE IF ~usdc_price.ok THEN Outcome(usdc_price.err, "Oracle", bk, bk, usr, <<>>, TRUE)
        ELSE IF borrowable = None THEN Outcome("MathOverflow", "Health", bk, bk, usr, <<>>, TRUE)
        ELSE IF mint_to_borrow \notin Assets
             THEN Outcome("UnsupportedAsset", "Health", bk, bk, usr, <<>>, TRUE)
        ELSE IF requested_borrow_value = None
             THEN Outcome("MathOverflow", "Health", bk, bk, usr, <<>>, TRUE)
        ELSE IF exceeds_borrowable(borrowable, requested_borrow_value)
             THEN Outcome("InsufficientCollateral", "Health", bk, bk, usr, <<>>, TRUE)
        ELSE IF ~transfer_checked(vault_balance, amount, tok_ok)
             THEN Outcome("TransferFailed", "Transfer", bk, bk, usr, xf, TRUE)
        ELSE IF shares = None THEN Outcome("MathOverflow", "Compute", bk, bk, usr, xf, TRUE)
        ELSE IF b1 = None THEN Outcome("MathOverflow", "Commit", bk, bk, usr, xf, TRUE)
        ELSE IF s1 = None THEN Outcome("MathOverflow", "Commit", bk1, bk1, usr, xf, TRUE)
        ELSE IF ua = None THEN Outcome("MathOverflow", "Commit", bk2, bk2, usr, xf, TRUE)
        ELSE IF us = None THEN Outcome("MathOverflow", "Commit", bk2, bk2, usr1, xf, TRUE)
        ELSE Outcome("Ok", "Done",
                     [bk2 EXCEPT !.last_updated = now], bk2,
                     [SetBorrowed(usr, mint_to_borrow, ua, us) EXCEPT !.last_updated = now],
                     xf, exact)

-----------------------------------------------------------------------------
(* Values shared by Withdraw and Liquidate *)

\* (sol_price as u128 * sol_amount as u128).checked_add(usdc_price as u128 * usdc_amount as u128)
portfolio_value(sol_price, usdc_price, sol_amount, usdc_amount, overflow_checks) ==
    LET s == unchecked_mul(AsU128(sol_price), sol_amount, overflow_checks)
        u == unchecked_mul(AsU128(usdc_price), usdc_amount, overflow_checks)
    IN  IF s = Panic \/ u = Panic THEN Panic ELSE checked_add(s, u)

\* value.checked_mul(liquidation_threshold).checked_div(100)
weighted_collateral(collateral_value, liquidation_threshold) ==
    checked_div(checked_mul(collateral_value, liquidation_threshold), 100)

-----------------------------------------------------------------------------
(* Withdraw (withdraw.rs) *)

\* step 2: amount = shares_to_withdraw * total_deposits / total_deposit_shares
amount_to_withdraw_inverted(bk, shares_to_withdraw) ==
    checked_div(checked_mul(shares_to_withdraw, bk.total_deposit_shares), bk.total_deposits)

amount_to_withdraw_undivided(bk, shares_to_withdraw) ==
    checked_mul(shares_to_withdraw, bk.total_deposits)

amount_to_withdraw_wide(bk, shares_to_withdraw) ==
    checked_div(checked_mul(shares_to_withdraw, bk.total_deposits), bk.total_deposit_shares)

\* step 1: the ownership check
insufficient_shares_or_equal(shares_to_withdraw, user_deposited_shares) ==
    shares_to_withdraw >= user_deposited_shares

insufficient_shares_beyond_one(shares_to_withdraw, user_deposited_shares) ==
    shares_to_withdraw > user_deposited_shares + 1

insufficient_shares(shares_to_withdraw, user_deposited_shares) ==
    shares_to_withdraw > user_deposited_shares

\* step 3.G: the verdict of the health check
withdraw_unhealthy_or_equal(simulated_weighted_collateral, total_debt_value) ==
    simulated_weighted_collateral <= total_debt_value

withdraw_unhealthy(simulated_weighted_collateral, total_debt_value) ==
    simulated_weighted_collateral < total_debt_value

process_withdraw(bk, usr, mint_to_withdraw, shares_to_withdraw, price_update, now, vault_balance, tok_ok, overflow_checks) ==
    LET user_deposited_shares == DepositedShares(usr, mint_to_withdraw)
        user_deposited_amount == DepositedAmount(usr, mint_to_withdraw)
        wide == amount_to_withdraw_wide(bk, shares_to_withdraw)
        amount_to_withdraw == AsU64(wide)
        sol_price == get_price_no_older_than(price_update, SOL_USD_FEED_ID)
        usdc_price == get_price_no_older_than(price_update, USDC_USD_FEED_ID)
        total_debt_value ==
            portfolio_value(sol_price.price, usdc_price.price,
                            usr.borrowed_sol, usr.borrowed_usdc, overflow_checks)
        simulated_sol_collateral ==
            IF mint_to_withdraw = USDC_MINT_ADDRESS THEN usr.deposited_sol
            ELSE user_deposited_amount - amount_to_withdraw
        simulated_usdc_collateral ==
            IF mint_to_withdraw = USDC_MINT_ADDRESS
            THEN user_deposited_amount - amount_to_withdraw
            ELSE usr.deposited_usdc
        simulated_total_collateral_value ==
            portfolio_value(sol_price.price, usdc_price.price,
                            simulated_sol_collateral, simulated_usdc_collateral,
                            overflow_checks)
        simulated_weighted_collateral ==
            weighted_collateral(simulated_total_collateral_value, bk.liquidation_threshold)
        xf == <<Xfer("vault", "signer", mint_to_withdraw, amount_to_withdraw)>>
        d1 == checked_sub64(bk.total_deposits, amount_to_withdraw)
        s1 == checked_sub64(bk.total_deposit_shares, shares_to_withdraw)
        bk1 == [bk EXCEPT !.total_deposits = d1]
        bk2 == [bk1 EXCEPT !.total_deposit_shares = s1]
        ua == checked_sub64(user_deposited_amount, amount_to_withdraw)
        us == checked_sub64(user_deposited_shares, shares_to_withdraw)
        usr1 == SetDeposited(usr, mint_to_withdraw, ua, user_deposited_shares)
        exact == /\ amount_to_withdraw = wide
                 /\ total_debt_value = sol_price.price * usr.borrowed_sol
                                       + usdc_price.price * usr.borrowed_usdc
                 /\ total_debt_value > 0 =>
                       simulated_total_collateral_value =
                           sol_price.price * simulated_sol_collateral
                           + usdc_price.price * simulated_usdc_collateral
    IN  IF zero_amount(shares_to_withdraw)
        THEN Outcome("ZeroAmount", "Validate", bk, bk, usr, <<>>, TRUE)
        ELSE IF mint_to_withdraw \notin Assets
             THEN Outcome("UnsupportedAsset", "Validate", bk, bk, usr, <<>>, TRUE)
        ELSE IF insufficient_shares(shares_to_withdraw, user_deposited_shares)
             THEN Outcome("InsufficientShares", "Validate", bk, bk, usr, <<>>, TRUE)
        ELSE IF amount_to_withdraw = None
             THEN Outcome("MathOverflow", "Compute", bk, bk, usr, <<>>, TRUE)
        ELSE IF amount_to_withdraw > user_deposited_amount
             THEN Outcome("InsufficientFunds", "Compute", bk, bk, usr, <<>>, TRUE)
        ELSE IF ~sol_price.ok THEN Outcome(sol_price.err, "Oracle", bk, bk, usr, <<>>, TRUE)
        ELSE IF ~usdc_price.ok THEN Outcome(usdc_price.err, "Oracle", bk, bk, usr, <<>>, TRUE)
        ELSE IF total_debt_value = Panic THEN Outcome("Panic", "Health", bk, bk, usr, <<>>, TRUE)
        ELSE IF total_debt_value = None
             THEN Outcome("MathOverflow", "Health", bk, bk, usr, <<>>, TRUE)
        ELSE IF total_debt_value > 0 /\ simulated_total_collateral_value = Panic
             THEN Outcome("Panic", "Health", bk, bk, usr, <<>>, TRUE)
        ELSE IF total_debt_value > 0 /\ simulated_weighted_collateral = None
             THEN Outcome("MathOverflow", "Health", bk, bk, usr, <<>>, TRUE)
        ELSE IF /\ total_debt_value > 0
                /\ withdraw_unhealthy(simulated_weighted_collateral, total_debt_value)
             THEN Outcome("PositionUnhealthy", "Health", bk, bk, usr, <<>>, TRUE)
        ELSE IF ~transfer_checked(vault_balance, amount_to_withdraw, tok_ok)
             THEN Outcome("TransferFailed", "Transfer", bk, bk, usr, xf, TRUE)
        ELSE IF d1 = None THEN Outcome("MathOverflow", "Commit", bk, bk, usr, xf, TRUE)
        ELSE IF s1 = None THEN Outcome("MathOverflow", "Commit", bk1, bk1, usr, xf, TRUE)
        ELSE IF ua = None THEN Outcome("MathOverflow", "Commit", bk2, bk2, usr, xf, TRUE)
        ELSE IF us = None THEN Outcome("MathOverflow", "Commit", bk2, bk2, usr1, xf, TRUE)
        ELSE Outcome("Ok", "Done", bk2, bk2,
                     SetDeposited(usr, mint_to_withdraw, ua, us), xf, exact)

-----------------------------------------------------------------------------
(* Liquidate (liquidate.rs) *)

\* step 1.D: the position may be liquidated only when this is false
position_healthy_strictly(weighted_collateral_value, total_debt_value) ==
    weighted_collateral_value > total_debt_value

position_healthy(weighted_collateral_value, total_debt_value) ==
    weighted_collateral_value >= total_debt_value

\* step 2.A: debt value * close factor / 100
repay_value_usd(total_debt_value, liquidation_close_factor) ==
    checked_div(checked_mul(total_debt_value, liquidation_close_factor), 100)

\* step 2.C: repay value * (100 + bonus) / 100
seize_value_usd(repay_value, liquidation_bonus) ==
    checked_div(checked_mul(repay_value, 100 + liquidation_bonus), 100)

\* steps 2.B and 2.D: value.checked_div(price as u128), before the `as u64`
native_amount_wide(value_usd, token_price) ==
    checked_div(value_usd, AsU128(token_price))

\* whether that quotient is the one of value_usd by the signed token_price
quotient_exact(value_usd, token_price, wide) ==
    \/ token_price > 0
    \/ token_price < 0 /\ wide = 0 /\ value_usd < -token_price

\* step 4: (amount as u128 * total_shares as u128).checked_div(total_amount as u128)
shares_for_amount_unscaled(amount, total_shares, total_amount) ==
    checked_div(amount, total_amount)

shares_for_amount_wide(amount, total_shares, total_amount) ==
    checked_div(amount * total_shares, total_amount)

TokenPrice(mint, sol_price, usdc_price) ==
    IF mint = USDC_MINT_ADDRESS THEN usdc_price.price ELSE sol_price.price

\* tok_fail: 0 when the token program accepts both transfers, 1 or 2 when it
\* refuses the first or the second for reasons of its own.
process_liquidate(borrowed_bank, collateral_bank, usr, borrowed_mint, collateral_mint, price_update, vaults, tok_fail, overflow_checks) ==
    LET sol_price == get_price_no_older_than(price_update, SOL_USD_FEED_ID)
        usdc_price == get_price_no_older_than(price_update, USDC_USD_FEED_ID)
        total_debt_value ==
            portfolio_value(sol_price.price, usdc_price.price,
                            usr.borrowed_sol, usr.borrowed_usdc, overflow_checks)
        total_collateral_value ==
            portfolio_value(sol_price.price, usdc_price.price,
                            usr.deposited_sol, usr.deposited_usdc, overflow_checks)
        weighted_collateral_value ==
            weighted_collateral(total_collateral_value, collateral_bank.liquidation_threshold)
        repay_value == repay_value_usd(total_debt_value, borrowed_bank.liquidation_close_factor)
        borrowed_token_price == TokenPrice(borrowed_mint, sol_price, usdc_price)
        repay_wide == native_amount_wide(repay_value, borrowed_token_price)
        repay_amount_native == AsU64(repay_wide)
        seize_value == seize_value_usd(repay_value, collateral_bank.liquidation_bonus)
        collateral_token_price == TokenPrice(collateral_mint, sol_price, usdc_price)
        seize_wide == native_amount_wide(seize_value, collateral_token_price)
        seize_amount_native == AsU64(seize_wide)
        xf1 == <<Xfer("liquidator", "vault", borrowed_mint, repay_amount_native)>>
        xf2 == Append(xf1, Xfer("vault", "liquidator", collateral_mint, seize_amount_native))
        collateral_vault_balance ==
            vaults[collateral_mint]
            + (IF borrowed_mint = collateral_mint THEN repay_amount_native ELSE 0)
        shares_repaid_wide ==
            shares_for_amount_wide(repay_amount_native, borrowed_bank.total_borrow_shares,
                                   borrowed_bank.total_borrows)
        shares_repaid == AsU64(shares_repaid_wide)
        shares_seized_wide ==
            shares_for_amount_wide(seize_amount_native, collateral_bank.total_deposit_shares,
                                   collateral_bank.total_deposits)
        shares_seized == AsU64(shares_seized_wide)
        b1 == checked_sub64(borrowed_bank.total_borrows, repay_amount_native)
        b2 == checked_sub64(borrowed_bank.total_borrow_shares, shares_repaid)
        bb1 == [borrowed_bank EXCEPT !.total_borrows = b1]
        bb2 == [bb1 EXCEPT !.total_borrow_shares = b2]
        c1 == checked_sub64(collateral_bank.total_deposits, seize_amount_native)
        c2 == checked_sub64(collateral_bank.total_deposit_shares, shares_seized)
        cb1 == [collateral_bank EXCEPT !.total_deposits = c1]
        cb2 == [cb1 EXCEPT !.total_deposit_shares = c2]
        ub == checked_sub64(BorrowedAmount(usr, borrowed_mint), repay_amount_native)
        ubs == checked_sub64(BorrowedShares(usr, borrowed_mint), shares_repaid)
        usr1 == SetBorrowed(usr, borrowed_mint, ub, BorrowedShares(usr, borrowed_mint))
        usr2 == SetBorrowed(usr, borrowed_mint, ub, ubs)
        ud == checked_sub64(DepositedAmount(usr2, collateral_mint), seize_amount_native)
        uds == checked_sub64(DepositedShares(usr2, collateral_mint), shares_seized)
        usr3 == SetDeposited(usr2, collateral_mint, ud, DepositedShares(usr2, collateral_mint))
        usr4 == SetDeposited(usr2, collateral_mint, ud, uds)
        exact == /\ total_debt_value = sol_price.price * usr.borrowed_sol
                                       + usdc_price.price * usr.borrowed_usdc
                 /\ total_collateral_value = sol_price.price * usr.deposited_sol
                                             + usdc_price.price * usr.deposited_usdc
                 /\ quotient_exact(repay_value, borrowed_token_price, repay_wide)
                 /\ quotient_exact(seize_value, collateral_token_price, seize_wide)
                 /\ repay_amount_native = repay_wide
                 /\ seize_amount_native = seize_wide
                 /\ shares_repaid = shares_repaid_wide
                 /\ shares_seized = shares_seized_wide
        Stop(res, stage, bb, cb, u, xf) == Outcome(res, stage, bb, cb, u, xf, TRUE)
    IN  IF ~sol_price.ok
        THEN Stop(sol_price.err, "Oracle", borrowed_bank, collateral_bank, usr, <<>>)
        ELSE IF ~usdc_price.ok
             THEN Stop(usdc_price.err, "Oracle", borrowed_bank, collateral_bank, usr, <<>>)
        ELSE IF total_debt_value = Panic \/ (total_debt_value # None /\ total_collateral_value = Panic)
             THEN Stop("Panic", "Health", borrowed_bank, collateral_bank, usr, <<>>)
        ELSE IF total_debt_value = None \/ weighted_collateral_value = None
             THEN Stop("MathOverflow", "Health", borrowed_bank, collateral_bank, usr, <<>>)
        ELSE IF position_healthy(weighted_collateral_value, total_debt_value)
             THEN Stop("PositionHealthy", "Health", borrowed_bank, collateral_bank, usr, <<>>)
        ELSE IF repay_value = None
             THEN Stop("MathOverflow", "Compute", borrowed_bank, collateral_bank, usr, <<>>)
        ELSE IF borrowed_mint \notin Assets
             THEN Stop("UnsupportedAsset", "Compute", borrowed_bank, collateral_bank, usr, <<>>)
        ELSE IF repay_amount_native = None \/ seize_value = None
             THEN Stop("MathOverflow", "Compute", borrowed_bank, collateral_bank, usr, <<>>)
        ELSE IF collateral_mint \notin Assets
             THEN Stop("UnsupportedAsset", "Compute", borrowed_bank, collateral_bank, usr, <<>>)
        ELSE IF seize_amount_native = None
             THEN Stop("MathOverflow", "Compute", borrowed_bank, collateral_bank, usr, <<>>)
        ELSE IF tok_fail = 1
             THEN Stop("TransferFailed", "Transfer", borrowed_bank, collateral_bank, usr, xf1)
        ELSE IF ~transfer_checked(collateral_vault_balance, seize_amount_native, tok_fail # 2)
             THEN Stop("TransferFailed", "Transfer", borrowed_bank, collateral_bank, usr, xf2)
        ELSE IF shares_repaid = None \/ shares_seized = None
             THEN Stop("MathOverflow", "Compute", borrowed_bank, collateral_bank, usr, xf2)
        ELSE IF b1 = None THEN Stop("MathOverflow", "Commit", borrowed_bank, collateral_bank, usr, xf2)
        ELSE IF b2 = None THEN Stop("MathOverflow", "Commit", bb1, collateral_bank, usr, xf2)
        ELSE IF c1 = None THEN Stop("MathOverflow", "Commit", bb2, collateral_bank, usr, xf2)
        ELSE IF c2 = None THEN Stop("MathOverflow", "Commit", bb2, cb1, usr, xf2)
        ELSE IF ub = None THEN Stop("MathOverflow", "Commit", bb2, cb2, usr, xf2)
        ELSE IF ubs = None THEN Stop("MathOverflow", "Commit", bb2, cb2, usr1, xf2)
        ELSE IF ud = None THEN Stop("MathOverflow", "Commit", bb2, cb2, usr2, xf2)
        ELSE IF uds = None THEN Stop("MathOverflow", "Commit", bb2, cb2, usr3, xf2)
        ELSE Outcome("Ok", "Done", bb2, cb2, usr4, xf2, exact)

-----------------------------------------------------------------------------
(* Inputs of the instructions *)

PriceUpdate(sol_quote, usdc_quote) ==
    [f \in {SOL_USD_FEED_ID, USDC_USD_FEED_ID} |->
        IF f = SOL_USD_FEED_ID THEN sol_quote ELSE usdc_quote]

\* fresh quotes with positive prices
GoodPriceUpdates ==
    {PriceUpdate(Quote(3, 0), Quote(1, MaximumAge)),
     PriceUpdate(Quote(1, 0), Quote(1, 0)),
     PriceUpdate(Quote(1, MaximumAge), Quote(2, 0))}

\* fresh quotes whose price is zero or negative
OddPriceUpdates ==
    {PriceUpdate(Quote(-1, 0), Quote(1, 0)),
     PriceUpdate(Quote(1, 0), Quote(0, 0))}

\* quotes that are older than the maximum age, or missing
UnusablePriceUpdates ==
    {PriceUpdate(Quote(1, MaximumAge + 1), Quote(1, 0)),
     PriceUpdate(Quote(1, 0), Quote(1, MaximumAge + 1)),
     PriceUpdate(NoQuote, Quote(1, 0)),
     PriceUpdate(Quote(1, 0), NoQuote)}

PriceUpdates == GoodPriceUpdates \cup OddPriceUpdates \cup UnusablePriceUpdates

Fresh(price_update) ==
    \A f \in DOMAIN price_update :
        price_update[f] # NoQuote /\ price_update[f].age <= MaximumAge

PriceOf(price_update, mint) ==
    IF mint = USDC_MINT_ADDRESS THEN price_update[USDC_USD_FEED_ID].price
    ELSE price_update[SOL_USD_FEED_ID].price

\* the build's overflow behaviour matters only to a product that overflows,
\* and only a negative price makes one
OverflowChecks(price_update) ==
    IF \E f \in DOMAIN price_update : price_update[f].price < 0 THEN BOOLEAN ELSE {TRUE}

\* The inputs the model draws, given the fresh quotes P: every user, asset and
\* amount under P, and one request of each remaining kind (zero amount,
\* unsupported mint, unusable quotes, a transfer the token program refuses).
AGoodPriceUpdate == PriceUpdate(Quote(1, 0), Quote(1, 0))

AnUnusablePriceUpdate == PriceUpdate(Quote(1, MaximumAge + 1), Quote(1, 0))

DepositInputs ==
    [u : Users, mint : Assets, amount : 1 .. MaxAmount, tok_ok : {TRUE}]
    \cup [u : Users, mint : Mints, amount : {0}, tok_ok : {TRUE}]
    \cup [u : Users, mint : {OTHER_MINT}, amount : {1}, tok_ok : {TRUE}]
    \cup [u : Users, mint : Assets, amount : {1}, tok_ok : {FALSE}]

AmountInputs(P) ==
    [u : Users, mint : Assets, amount : 1 .. MaxAmount, price_update : P, tok_ok : {TRUE}]
    \cup [u : Users, mint : Mints, amount : {0},
          price_update : {AGoodPriceUpdate, AnUnusablePriceUpdate}, tok_ok : {TRUE}]
    \cup [u : Users, mint : {OTHER_MINT}, amount : {1},
          price_update : {AGoodPriceUpdate, AnUnusablePriceUpdate}, tok_ok : {TRUE}]
    \cup [u : Users, mint : Assets, amount : {1},
          price_update : UnusablePriceUpdates, tok_ok : {TRUE}]
    \cup [u : Users, mint : Assets, amount : {1},
          price_update : {AGoodPriceUpdate}, tok_ok : {FALSE}]

BorrowInputs(P) == AmountInputs(P)

WithdrawInputs(P) == AmountInputs(P)

LiquidateInputs(P) ==
    [u : Users, borrowed_mint : Assets, collateral_mint : Assets,
     price_update : P, tok_fail : {0}]
    \cup [u : Users, borrowed_mint : Assets, collateral_mint : Assets,
          price_update : {AGoodPriceUpdate}, tok_fail : {1, 2}]
    \cup [u : Users, borrowed_mint : Assets, collateral_mint : Assets,
          price_update : UnusablePriceUpdates, tok_fail : {0}]
    \cup [u : Users, borrowed_mint : {OTHER_MINT}, collateral_mint : Mints,
          price_update : {AGoodPriceUpdate, AnUnusablePriceUpdate}, tok_fail : {0}]
    \cup [u : Users, borrowed_mint : Assets, collateral_mint : {OTHER_MINT},
          price_update : {AGoodPriceUpdate}, tok_fail : {0}]

\* the risk parameters the banks were created with
BankConfig ==
    [a \in Mints |-> IF a = SOL_MINT_ADDRESS THEN NewBank(75, 90, 5, 100)
                     ELSE NewBank(50, 80, 10, 50)]

-----------------------------------------------------------------------------
(* The state machine.  The runtime runs one instruction at a time; `last` is *)
(* the result the running instruction returned, until Return hands it to the *)
(* caller.                                                                    *)

Idle == [op |-> "Idle", res |-> "Ok", stage |-> "Done"]

Result(op, r) == [op |-> op, res |-> r.res, stage |-> r.stage]

RECURSIVE ApplyTransfers(_, _)
ApplyTransfers(v, xfers) ==
    IF xfers = <<>> THEN v
    ELSE LET x == Head(xfers)
             v1 == IF x.to = "vault" THEN [v EXCEPT ![x.mint] = @ + x.amount]
                   ELSE [v EXCEPT ![x.mint] = @ - x.amount]
         IN  ApplyTransfers(v1, Tail(xfers))

Init ==
    /\ bank = BankConfig
    /\ user = [u \in Users |-> NewUser]
    /\ vault = [m \in Mints |-> 0]
    /\ clock = 0
    /\ last = Idle

Deposit(u, mint, amount, tok_ok) ==
    LET r == process_deposit(bank[mint], user[u], mint, amount, clock, tok_ok)
    IN  /\ last = Idle
        /\ last' = Result("Deposit", r)
        /\ IF r.res = "Ok"
           THEN /\ bank' = [bank EXCEPT ![mint] = r.bank]
                /\ user' = [user EXCEPT ![u] = r.user]
                /\ vault' = ApplyTransfers(vault, r.xfers)
           ELSE UNCHANGED <<bank, user, vault>>
        /\ UNCHANGED clock

Borrow(u, mint, amount, price_update, tok_ok) ==
    LET r == process_borrow(bank[mint], user[u], mint, amount, price_update, clock,
                            vault[mint], tok_ok)
    IN  /\ last = Idle
        /\ last' = Result("Borrow", r)
        /\ IF r.res = "Ok"
           THEN /\ bank' = [bank EXCEPT ![mint] = r.bank]
                /\ user' = [user EXCEPT ![u] = r.user]
                /\ vault' = ApplyTransfers(vault, r.xfers)
           ELSE UNCHANGED <<bank, user, vault>>
        /\ UNCHANGED clock

Withdraw(u, mint, shares, price_update, tok_ok, overflow_checks) ==
    LET r == process_withdraw(bank[mint], user[u], mint, shares, price_update, clock,
                              vault[mint], tok_ok, overflow_checks)
    IN  /\ last = Idle
        /\ last' = Result("Withdraw", r)
        /\ IF r.res = "Ok"
           THEN /\ bank' = [bank EXCEPT ![mint] = r.bank]
                /\ user' = [user EXCEPT ![u] = r.user]
                /\ vault' = ApplyTransfers(vault, r.xfers)
           ELSE UNCHANGED <<bank, user, vault>>
        /\ UNCHANGED clock

\* Liquidate on a host that keeps what a failed handler has written
Liquidate_without_rollback(u, borrowed_mint, collateral_mint, price_update, tok_fail, overflow_checks) ==
    LET r == process_liquidate(bank[borrowed_mint], bank[collateral_mint], user[u],
                               borrowed_mint, collateral_mint, price_update, vault,
                               tok_fail, overflow_checks)
    IN  /\ last = Idle
        /\ last' = Result("Liquidate", r)
        /\ bank' = [bank EXCEPT ![borrowed_mint] = r.bank, ![collateral_mint] = r.bank2]
        /\ user' = [user EXCEPT ![u] = r.user]
        /\ vault' = IF r.res = "Ok" THEN ApplyTransfers(vault, r.xfers) ELSE vault
        /\ UNCHANGED clock

\* borrowed_bank and collateral_bank are two accounts of the instruction, each
\* loaded into a copy of its own and written back when the handler returns Ok,
\* in the order the accounts are declared: when both mints are the same the
\* two copies are of one Bank and the copy written last stays.
Liquidate(u, borrowed_mint, collateral_mint, price_update, tok_fail, overflow_checks) ==
    LET r == process_liquidate(bank[borrowed_mint], bank[collateral_mint], user[u],
                               borrowed_mint, collateral_mint, price_update, vault,
                               tok_fail, overflow_checks)
    IN  /\ last = Idle
        /\ last' = Result("Liquidate", r)
        /\ IF r.res = "Ok"
           THEN /\ bank' = [bank EXCEPT ![borrowed_mint] = r.bank,
                                        ![collateral_mint] = r.bank2]
                /\ user' = [user EXCEPT ![u] = r.user]
                /\ vault' = ApplyTransfers(vault, r.xfers)
           ELSE UNCHANGED <<bank, user, vault>>
        /\ UNCHANGED clock

\* the result reaches the caller; the next instruction may run
Return ==
    /\ last # Idle
    /\ last' = Idle
    /\ UNCHANGED <<bank, user, vault, clock>>

\* time passes between instructions
Tick ==
    /\ last = Idle
    /\ clock < MaxClock
    /\ clock' = clock + 1
    /\ UNCHANGED <<bank, user, vault, last>>

\* the totals the model lets each pool grow to
Caps == [m \in Mints |-> MaxTotal]

DepositAny(cap) ==
    \E i \in DepositInputs :
        /\ bank[i.mint].total_deposits + i.amount <= cap[i.mint]
        /\ Deposit(i.u, i.mint, i.amount, i.tok_ok)

BorrowAny(P, cap) ==
    \E i \in BorrowInputs(P) :
        /\ bank[i.mint].total_borrows + i.amount <= cap[i.mint]
        /\ Borrow(i.u, i.mint, i.amount, i.price_update, i.tok_ok)

WithdrawAny(P) ==
    \E i \in WithdrawInputs(P) :
        \E overflow_checks \in OverflowChecks(i.price_update) :
            Withdraw(i.u, i.mint, i.amount, i.price_update, i.tok_ok, overflow_checks)

LiquidateAny(P) ==
    \E i \in LiquidateInputs(P) :
        \E overflow_checks \in OverflowChecks(i.price_update) :
            Liquidate(i.u, i.borrowed_mint, i.collateral_mint, i.price_update,
                      i.tok_fail, overflow_checks)

\* the program under an oracle whose fresh quotes carry positive prices
Next ==
    \/ DepositAny(Caps)
    \/ BorrowAny(GoodPriceUpdates, Caps)
    \/ WithdrawAny(GoodPriceUpdates)
    \/ LiquidateAny(GoodPriceUpdates)
    \/ Return

Spec == Init /\ [][Next]_vars

\* the program under an oracle that may also quote a zero or a negative price
NextOracle ==
    \/ DepositAny(Caps)
    \/ BorrowAny(GoodPriceUpdates \cup OddPriceUpdates, Caps)
    \/ WithdrawAny(GoodPriceUpdates \cup OddPriceUpdates)
    \/ LiquidateAny(GoodPriceUpdates \cup OddPriceUpdates)
    \/ Return

SpecOracle == Init /\ [][NextOracle]_vars

\* The share arithmetic, from pools whose amounts and shares have drifted apart
\* (the data model lets interest do that; no instruction of this program
\* does).  u1 holds every share of the USDC pool and owes its whole debt.
PoolMax == MaxTotal + 1

PoolStates ==
    {<<0, 0>>} \cup ((1 .. PoolMax) \X (1 .. PoolMax))

InitShares ==
    \E dep \in PoolStates, bor \in {<<0, 0>>, <<1, 1>>, <<1, 2>>, <<2, 1>>} :
        /\ bor[1] <= dep[1]
        /\ bank = [BankConfig EXCEPT
                      ![USDC_MINT_ADDRESS].total_deposits = dep[1],
                      ![USDC_MINT_ADDRESS].total_deposit_shares = dep[2],
                      ![USDC_MINT_ADDRESS].total_borrows = bor[1],
                      ![USDC_MINT_ADDRESS].total_borrow_shares = bor[2]]
        /\ user = [u \in Users |->
                      IF u = "u1"
                      THEN SetBorrowed(SetDeposited(NewUser, USDC_MINT_ADDRESS, dep[1], dep[2]),
                                       USDC_MINT_ADDRESS, bor[1], bor[2])
                      ELSE NewUser]
        /\ vault = [m \in Mints |-> IF m = USDC_MINT_ADDRESS THEN dep[1] - bor[1] ELSE 0]
        /\ clock = 0
        /\ last = Idle

\* only the USDC pool grows
CapsShares == [m \in Mints |-> IF m = USDC_MINT_ADDRESS THEN PoolMax + 1 ELSE 0]

NextShares ==
    \/ DepositAny(CapsShares)
    \/ BorrowAny({AGoodPriceUpdate}, CapsShares)
    \/ WithdrawAny({AGoodPriceUpdate})
    \/ Return

SpecShares == InitShares /\ [][NextShares]_vars

\* Deposit, Borrow and Withdraw as time passes, under one fresh quote
\* The program with a SOL pool one unit deeper and SOL quoted at 3, where a
\* position can hold enough collateral for the two banks' liquidation
\* thresholds to weigh it differently.
CapsHealth == [m \in Mints |-> IF m = SOL_MINT_ADDRESS THEN PoolMax ELSE MaxTotal]

HighSolPriceUpdate == PriceUpdate(Quote(3, 0), Quote(1, MaximumAge))

NextHealth ==
    \/ DepositAny(CapsHealth)
    \/ BorrowAny({HighSolPriceUpdate}, CapsHealth)
    \/ WithdrawAny({HighSolPriceUpdate})
    \/ LiquidateAny({HighSolPriceUpdate})
    \/ Return

SpecHealth == Init /\ [][NextHealth]_vars

NextClock ==
    \/ DepositAny(Caps)
    \/ BorrowAny({AGoodPriceUpdate}, Caps)
    \/ WithdrawAny({AGoodPriceUpdate})
    \/ LiquidateAny({AGoodPriceUpdate})
    \/ Return
    \/ Tick

SpecClock == Init /\ [][NextClock]_vars

-----------------------------------------------------------------------------
(* The quantities the properties speak of, in unbounded integers *)

AllQuotes == GoodPriceUpdates \cup OddPriceUpdates

NonNegative(price_update) ==
    \A f \in DOMAIN price_update : price_update[f].price >= 0

CollateralValue(usr, price_update) ==
    PriceOf(price_update, SOL_MINT_ADDRESS) * usr.deposited_sol
    + PriceOf(price_update, USDC_MINT_ADDRESS) * usr.deposited_usdc

DebtValue(usr, price_update) ==
    PriceOf(price_update, SOL_MINT_ADDRESS) * usr.borrowed_sol
    + PriceOf(price_update, USDC_MINT_ADDRESS) * usr.borrowed_usdc

Percent(value, pct) == (value * pct) \div 100

\* no instruction is running: the state an instruction starts from
AtEntry == last = Idle

RECURSIVE SumOver(_, _)
SumOver(S, f) ==
    IF S = {} THEN 0
    ELSE LET x == CHOOSE y \in S : TRUE IN f[x] + SumOver(S \ {x}, f)

LiquidateOutcome(i, overflow_checks) ==
    process_liquidate(bank[i.borrowed_mint], bank[i.collateral_mint], user[i.u],
                      i.borrowed_mint, i.collateral_mint, i.price_update, vault,
                      i.tok_fail, overflow_checks)

BorrowOutcome(i) ==
    process_borrow(bank[i.mint], user[i.u], i.mint, i.amount, i.price_update, clock,
                   vault[i.mint], i.tok_ok)

WithdrawOutcome(i, overflow_checks) ==
    process_withdraw(bank[i.mint], user[i.u], i.mint, i.amount, i.price_update, clock,
                     vault[i.mint], i.tok_ok, overflow_checks)

\* the handler has failed without invoking a transfer or writing an account
Untouched(r, bk, bk2, usr) ==
    /\ r.res # "Ok"
    /\ r.xfers = <<>>
    /\ r.bank = bk
    /\ r.bank2 = bk2
    /\ r.user = usr

\* the fields of a Bank and the per-asset slots of a User
BorrowTotals == {"total_borrows", "total_borrow_shares"}

DepositTotals == {"total_deposits", "total_deposit_shares"}

BorrowedSlots(mint) ==
    IF mint = USDC_MINT_ADDRESS THEN {"borrowed_usdc", "borrowed_usdc_shares"}
    ELSE {"borrowed_sol", "borrowed_sol_shares"}

DepositedSlots(mint) ==
    IF mint = USDC_MINT_ADDRESS THEN {"deposited_usdc", "deposited_usdc_shares"}
    ELSE {"deposited_sol", "deposited_sol_shares"}

\* the records agree on every field outside `fields`
SameExcept(before, after, fields) ==
    \A f \in DOMAIN before \ fields : after[f] = before[f]

NoDebt(usr) == \A m \in Assets : BorrowedAmount(usr, m) = 0

-----------------------------------------------------------------------------
(* C1 *)

\* C1: in every reachable state each bank's total_deposit_shares is the sum of
\* the users' deposited shares of the asset, and its total_borrow_shares the
\* sum of the users' borrowed shares.
C1_ShareConservation ==
    \A m \in Assets :
        /\ bank[m].total_deposit_shares
               = SumOver(Users, [u \in Users |-> DepositedShares(user[u], m)])
        /\ bank[m].total_borrow_shares
               = SumOver(Users, [u \in Users |-> BorrowedShares(user[u], m)])

-----------------------------------------------------------------------------
(* C2 *)

-----------------------------------------------------------------------------
(* C3 *)

-----------------------------------------------------------------------------
(* C4 *)

\* C4: in every state an instruction can start from, for fresh positive quotes
\* and a supported pair of assets in which the user holds debt and collateral,
\* when the weighted collateral is below the debt value the liquidation
\* succeeds unless a transfer fails.
C4_UnhealthyLiquidated ==
    AtEntry =>
    \A i \in LiquidateInputs(GoodPriceUpdates) :
        ( /\ Fresh(i.price_update)
          /\ i.borrowed_mint \in Assets
          /\ i.collateral_mint \in Assets
          /\ BorrowedAmount(user[i.u], i.borrowed_mint) > 0
          /\ DepositedAmount(user[i.u], i.collateral_mint) > 0
          /\ Percent(CollateralValue(user[i.u], i.price_update),
                     bank[i.collateral_mint].liquidation_threshold)
                 < DebtValue(user[i.u], i.price_update) )
        => LiquidateOutcome(i, TRUE).res \in {"Ok", "TransferFailed"}

-----------------------------------------------------------------------------
(* C5 *)

-----------------------------------------------------------------------------
(* C6 *)

\* C6: in every state an instruction can start from, for a user with debt and
\* a withdrawal that passes the zero-amount, asset, share and balance checks
\* under fresh quotes,
\* Withdraw returns PositionUnhealthy when floor(simulated collateral value *
\* threshold / 100) is below the debt value, and otherwise (equality included)
\* succeeds exactly when the transfer does.
C6_WithdrawHealth ==
    AtEntry =>
    \A i \in WithdrawInputs(AllQuotes) :
        LET usr == user[i.u]
            bk == bank[i.mint]
            amt == (i.amount * bk.total_deposits) \div bk.total_deposit_shares
            simulated == CollateralValue(usr, i.price_update)
                         - amt * PriceOf(i.price_update, i.mint)
        IN  ( /\ i.amount > 0
              /\ i.mint \in Assets
              /\ Fresh(i.price_update)
              /\ NonNegative(i.price_update)
              /\ i.amount <= DepositedShares(usr, i.mint)
              /\ bk.total_deposit_shares > 0
              /\ amt <= DepositedAmount(usr, i.mint)
              /\ \E m \in Assets : BorrowedAmount(usr, m) > 0 )
            => WithdrawOutcome(i, TRUE).res =
                   IF Percent(simulated, bk.liquidation_threshold)
                          < DebtValue(usr, i.price_update)
                   THEN "PositionUnhealthy"
                   ELSE IF i.tok_ok /\ vault[i.mint] >= amt THEN "Ok"
                   ELSE "TransferFailed"

\* a withdrawal by a user with debt has succeeded and left the weighted
\* collateral exactly equal to the debt value
C6_Witness ==
    /\ last.op = "Withdraw"
    /\ last.res = "Ok"
    /\ \E u \in Users, m \in Assets, p \in GoodPriceUpdates :
          /\ DebtValue(user[u], p) > 0
          /\ Percent(CollateralValue(user[u], p), bank[m].liquidation_threshold)
                 = DebtValue(user[u], p)

-----------------------------------------------------------------------------
(* C7 *)

\* C7: in every state an instruction can start from, whatever Borrow, Withdraw
\* or Liquidate commits was computed exactly: a handler that returns Ok has
\* cast, multiplied, divided and narrowed without changing any value.
C7_NoSilentWrap ==
    AtEntry =>
    /\ \A i \in BorrowInputs(AllQuotes) :
          BorrowOutcome(i).res = "Ok" => BorrowOutcome(i).exact
    /\ \A i \in WithdrawInputs(AllQuotes) :
          \A oc \in OverflowChecks(i.price_update) :
              WithdrawOutcome(i, oc).res = "Ok" => WithdrawOutcome(i, oc).exact
    /\ \A i \in LiquidateInputs(AllQuotes) :
          \A oc \in OverflowChecks(i.price_update) :
              LiquidateOutcome(i, oc).res = "Ok" => LiquidateOutcome(i, oc).exact

-----------------------------------------------------------------------------
(* C8 *)

\* C8: every step in which a Withdraw succeeds is the redemption of some
\* X shares, 0 < X <= the user's shares of the asset, against the bank's totals
\* (D, S): floor(X * D / S) units leave the vault, that amount is at most the
\* user's recorded amount, the bank's total_deposits and the user's amount
\* fall by it, and the bank's total_deposit_shares and the user's shares by X.
C8_RedeemConsistency ==
    [][(last'.op = "Withdraw" /\ last'.res = "Ok") =>
        \E u \in Users, m \in Assets :
            \E X \in 1 .. DepositedShares(user[u], m) :
                LET D == bank[m].total_deposits
                    S == bank[m].total_deposit_shares
                    amt == (X * D) \div S
                IN  /\ S > 0
                    /\ amt <= DepositedAmount(user[u], m)
                    /\ vault'[m] = vault[m] - amt
                    /\ bank'[m].total_deposits = D - amt
                    /\ bank'[m].total_deposit_shares = S - X
                    /\ DepositedAmount(user'[u], m) = DepositedAmount(user[u], m) - amt
                    /\ DepositedShares(user'[u], m) = DepositedShares(user[u], m) - X]_vars

\* a withdrawal has succeeded from a pool that still holds more shares than
\* units, or more units than shares
C8_Witness ==
    /\ last.op = "Withdraw"
    /\ last.res = "Ok"
    /\ bank[USDC_MINT_ADDRESS].total_deposit_shares > 0
    /\ bank[USDC_MINT_ADDRESS].total_deposits # bank[USDC_MINT_ADDRESS].total_deposit_shares
    /\ bank[SOL_MINT_ADDRESS].total_deposits = 0

-----------------------------------------------------------------------------
(* C9 *)

\* C9: in every reachable state, for every bank, total_deposits is zero exactly
\* when total_deposit_shares is, and total_borrows exactly when
\* total_borrow_shares is.
C9_ZeroIffZero ==
    \A m \in Mints :
        /\ (bank[m].total_deposits = 0) <=> (bank[m].total_deposit_shares = 0)
        /\ (bank[m].total_borrows = 0) <=> (bank[m].total_borrow_shares = 0)

\* a withdrawal has emptied a pool that still has borrows recorded
C9_Witness ==
    /\ last.op = "Withdraw"
    /\ last.res = "Ok"
    /\ \E m \in Assets :
          /\ bank[m].total_deposits = 0
          /\ bank[m].total_deposit_shares = 0
          /\ bank[m].total_borrows > 0

-----------------------------------------------------------------------------
(* C10 *)

\* C10: every step in which a Deposit succeeds is the deposit of some amount
\* A > 0 into a bank with totals (D, S): it mints A shares when D = 0 or S = 0
\* and floor(A * S / D) shares otherwise, adds A to total_deposits and to the
\* depositor's amount, and the minted shares to total_deposit_shares and to the
\* depositor's shares; into an empty bank it leaves both totals equal to A.
C10_DepositMinting ==
    [][(last'.op = "Deposit" /\ last'.res = "Ok") =>
        \E u \in Users, m \in Assets, A \in 1 .. MaxAmount :
            LET D == bank[m].total_deposits
                S == bank[m].total_deposit_shares
                minted == IF D = 0 \/ S = 0 THEN A ELSE (A * S) \div D
            IN  /\ bank'[m].total_deposits = D + A
                /\ bank'[m].total_deposit_shares = S + minted
                /\ DepositedAmount(user'[u], m) = DepositedAmount(user[u], m) + A
                /\ DepositedShares(user'[u], m) = DepositedShares(user[u], m) + minted
                /\ (D = 0 /\ S = 0) =>
                       /\ bank'[m].total_deposits = A
                       /\ bank'[m].total_deposit_shares = A]_vars

\* a deposit into a pool of unequal totals has succeeded: u2, who held
\* nothing, now holds USDC shares in a number other than the amount deposited
C10_Witness ==
    /\ last.op = "Deposit"
    /\ last.res = "Ok"
    /\ user["u2"].deposited_usdc > 0
    /\ user["u2"].deposited_usdc_shares > 0
    /\ user["u2"].deposited_usdc_shares # user["u2"].deposited_usdc

-----------------------------------------------------------------------------
(* C11 *)

\* C11: every step in which a Deposit succeeds into a pool with both totals
\* positive leaves total_deposits / total_deposit_shares at least what it was,
\* compared by cross-multiplication; as it holds of every step it holds of one
\* deposit of 2A and of two deposits of A.
C11_NoDilution ==
    [][(last'.op = "Deposit" /\ last'.res = "Ok") =>
        \A m \in Assets :
            (bank[m].total_deposits > 0 /\ bank[m].total_deposit_shares > 0) =>
                bank'[m].total_deposits * bank[m].total_deposit_shares
                    >= bank[m].total_deposits * bank'[m].total_deposit_shares]_vars

\* u2, who held nothing, has deposited 2 USDC (at once or as 1 and 1) into a
\* pool of unequal totals and holds fewer shares than units
C11_Witness ==
    /\ last.op = "Deposit"
    /\ last.res = "Ok"
    /\ user["u2"].deposited_usdc = 2
    /\ user["u2"].deposited_usdc_shares < 2
    /\ bank[USDC_MINT_ADDRESS].total_deposits > bank[USDC_MINT_ADDRESS].total_deposit_shares

-----------------------------------------------------------------------------
(* C12 *)

\* C12: in every state an instruction can start from, for every user, mint,
\* amount and transfer outcome, when the quote of either feed is missing or
\* older than the maximum age, Borrow, Withdraw and Liquidate fail, invoke no
\* transfer and write nothing.
C12_StalePricesAbort ==
    AtEntry =>
    \A u \in Users, p \in UnusablePriceUpdates :
        /\ \A m \in Mints, a \in 0 .. MaxAmount, tok_ok \in BOOLEAN :
              /\ Untouched(process_borrow(bank[m], user[u], m, a, p, clock, vault[m], tok_ok),
                           bank[m], bank[m], user[u])
              /\ Untouched(process_withdraw(bank[m], user[u], m, a, p, clock, vault[m],
                                            tok_ok, TRUE),
                           bank[m], bank[m], user[u])
        /\ \A bm \in Mints, cm \in Mints :
              Untouched(process_liquidate(bank[bm], bank[cm], user[u], bm, cm, p, vault,
                                          0, TRUE),
                        bank[bm], bank[cm], user[u])

\* a liquidation has failed on a stale quote while a position is unhealthy
\* under a fresh one
C12_Witness ==
    /\ last.op = "Liquidate"
    /\ last.res = "StalePrice"
    /\ \E u \in Users, m \in Assets, p \in GoodPriceUpdates :
          Percent(CollateralValue(user[u], p), bank[m].liquidation_threshold)
              < DebtValue(user[u], p)

-----------------------------------------------------------------------------
(* C13 *)

\* C13: in every state an instruction can start from, for a user who owes
\* nothing and any X with 0 < X <= the user's shares of a supported asset
\* (the amount redeemed being within the recorded amount), Withdraw never
\* returns PositionUnhealthy, and under fresh quotes it succeeds exactly when
\* the transfer does: all of the user's shares can be withdrawn.
C13_ZeroDebtWithdraw ==
    AtEntry =>
    \A i \in WithdrawInputs(AllQuotes) : \A oc \in OverflowChecks(i.price_update) :
        LET usr == user[i.u]
            bk == bank[i.mint]
            amt == (i.amount * bk.total_deposits) \div bk.total_deposit_shares
        IN  ( /\ NoDebt(usr)
              /\ i.amount > 0
              /\ i.mint \in Assets
              /\ i.amount <= DepositedShares(usr, i.mint)
              /\ bk.total_deposit_shares > 0
              /\ amt <= DepositedAmount(usr, i.mint) )
            => LET r == WithdrawOutcome(i, oc)
               IN  /\ r.res # "PositionUnhealthy"
                   /\ Fresh(i.price_update) =>
                          r.res = IF i.tok_ok /\ vault[i.mint] >= amt THEN "Ok"
                                  ELSE "TransferFailed"

\* a withdrawal has succeeded and left every pool empty and nobody in debt
C13_Witness ==
    /\ last.op = "Withdraw"
    /\ last.res = "Ok"
    /\ \A m \in Assets : bank[m].total_deposit_shares = 0 /\ bank[m].total_borrows = 0
    /\ \A u \in Users : NoDebt(user[u])

-----------------------------------------------------------------------------
(* C14 *)

\* C14: in every reachable state no user holds a negative number of deposit
\* shares, and in every state an instruction can start from, for every user,
\* supported asset, quote and transfer outcome, Withdraw of more shares than
\* the user holds of the asset returns InsufficientShares, invokes no transfer
\* and writes nothing.
C14_ShareOwnershipBound ==
    /\ \A u \in Users, m \in Assets : DepositedShares(user[u], m) >= 0
    /\ AtEntry =>
         \A u \in Users, m \in Assets, p \in PriceUpdates, tok_ok \in BOOLEAN :
             \A X \in (DepositedShares(user[u], m) + 1) .. (MaxTotal + 1) :
                 LET r == process_withdraw(bank[m], user[u], m, X, p, clock, vault[m],
                                           tok_ok, TRUE)
                 IN  r.res = "InsufficientShares" /\ Untouched(r, bank[m], bank[m], user[u])

\* a withdrawal was refused for want of shares while every user holds a share
\* of every asset
C14_Witness ==
    /\ last.op = "Withdraw"
    /\ last.res = "InsufficientShares"
    /\ \A u \in Users, m \in Assets : DepositedShares(user[u], m) >= 1

-----------------------------------------------------------------------------
(* C15 *)

\* C15: in every state an instruction can start from, for every user, mint
\* (supported or not), quote (usable or not) and transfer outcome, Deposit,
\* Borrow and Withdraw of 0 return ZeroAmount at the validation stage, invoke
\* no transfer and write nothing.
C15_ZeroAmountFirst ==
    AtEntry =>
    \A u \in Users, m \in Mints, tok_ok \in BOOLEAN :
        /\ LET d == process_deposit(bank[m], user[u], m, 0, clock, tok_ok)
           IN  /\ d.res = "ZeroAmount" /\ d.stage = "Validate"
               /\ Untouched(d, bank[m], bank[m], user[u])
        /\ \A p \in PriceUpdates :
              LET b == process_borrow(bank[m], user[u], m, 0, p, clock, vault[m], tok_ok)
                  w == process_withdraw(bank[m], user[u], m, 0, p, clock, vault[m],
                                        tok_ok, TRUE)
              IN  /\ b.res = "ZeroAmount" /\ b.stage = "Validate"
                  /\ Untouched(b, bank[m], bank[m], user[u])
                  /\ w.res = "ZeroAmount" /\ w.stage = "Validate"
                  /\ Untouched(w, bank[m], bank[m], user[u])

\* a borrow of 0 was refused while a user holds enough collateral to borrow
C15_Witness ==
    /\ last.op = "Borrow"
    /\ last.res = "ZeroAmount"
    /\ \E u \in Users : CollateralValue(user[u], AGoodPriceUpdate) >= 2

-----------------------------------------------------------------------------
(* C16 *)

-----------------------------------------------------------------------------
(* C17 *)

\* C17: every step in which a liquidation of user u succeeds, for borrowed
\* asset bm, collateral asset cm and fresh positive quotes, repays
\* floor(floor(debt * close factor of bm / 100) / price of bm) and seizes
\* floor(floor(repay value * (100 + bonus of cm) / 100) / price of cm), the
\* debt being u's debt over all assets; these are the amounts moved into and
\* out of the vaults, subtracted from total_borrows of bm and total_deposits
\* of cm, and subtracted from u's borrowed amount of bm and deposited amount
\* of cm.
C17_LiquidationAmounts ==
    [][(last'.op = "Liquidate" /\ last'.res = "Ok") =>
       \A i \in LiquidateInputs(GoodPriceUpdates) :
        ( /\ Liquidate(i.u, i.borrowed_mint, i.collateral_mint, i.price_update,
                       i.tok_fail, TRUE)
          /\ last'.res = "Ok" )
        => LET bm == i.borrowed_mint
               cm == i.collateral_mint
               repay_value == Percent(DebtValue(user[i.u], i.price_update),
                                      bank[bm].liquidation_close_factor)
               repay_amount == repay_value \div PriceOf(i.price_update, bm)
               seize_value == Percent(repay_value, 100 + bank[cm].liquidation_bonus)
               seize_amount == seize_value \div PriceOf(i.price_update, cm)
           IN  /\ vault' = ApplyTransfers(vault,
                               <<Xfer("liquidator", "vault", bm, repay_amount),
                                 Xfer("vault", "liquidator", cm, seize_amount)>>)
               /\ bank'[bm].total_borrows = bank[bm].total_borrows - repay_amount
               /\ bank'[cm].total_deposits = bank[cm].total_deposits - seize_amount
               /\ BorrowedAmount(user'[i.u], bm)
                      = BorrowedAmount(user[i.u], bm) - repay_amount
               /\ DepositedAmount(user'[i.u], cm)
                      = DepositedAmount(user[i.u], cm) - seize_amount]_vars

-----------------------------------------------------------------------------
(* C18 *)

\* C18: a step in which Borrow succeeds changes, for some user u and asset m,
\* at most the borrow totals and timestamp of bank m and u's borrowed slots of
\* m and timestamp; one in which Withdraw succeeds, at most the deposit totals
\* of bank m and u's deposited slots of m; one in which Liquidate succeeds, for
\* some user u and assets bm and cm, at most the borrow totals of bank bm, the
\* deposit totals of bank cm, and u's borrowed slots of bm and deposited slots
\* of cm.  Every other bank, bank field, slot and user is as it was.
C18_Frame ==
    [][last'.res = "Ok" =>
        /\ last'.op = "Borrow" =>
              \E u \in Users, m \in Assets :
                  /\ \A o \in Mints \ {m} : bank'[o] = bank[o]
                  /\ \A v \in Users \ {u} : user'[v] = user[v]
                  /\ SameExcept(bank[m], bank'[m], BorrowTotals \cup {"last_updated"})
                  /\ SameExcept(user[u], user'[u], BorrowedSlots(m) \cup {"last_updated"})
        /\ last'.op = "Withdraw" =>
              \E u \in Users, m \in Assets :
                  /\ \A o \in Mints \ {m} : bank'[o] = bank[o]
                  /\ \A v \in Users \ {u} : user'[v] = user[v]
                  /\ SameExcept(bank[m], bank'[m], DepositTotals)
                  /\ SameExcept(user[u], user'[u], DepositedSlots(m))
        /\ last'.op = "Liquidate" =>
              \E u \in Users, bm \in Assets, cm \in Assets :
                  /\ \A o \in Mints \ {bm, cm} : bank'[o] = bank[o]
                  /\ \A v \in Users \ {u} : user'[v] = user[v]
                  /\ SameExcept(bank[bm], bank'[bm],
                                IF bm = cm THEN BorrowTotals \cup DepositTotals
                                ELSE BorrowTotals)
                  /\ SameExcept(bank[cm], bank'[cm],
                                IF bm = cm THEN BorrowTotals \cup DepositTotals
                                ELSE DepositTotals)
                  /\ SameExcept(user[u], user'[u],
                                BorrowedSlots(bm) \cup DepositedSlots(cm))]_vars

\* a liquidation across two assets has succeeded after the clock has advanced,
\* while the other user holds deposits and owes a debt
C18_Witness ==
    /\ last.op = "Liquidate"
    /\ last.res = "Ok"
    /\ clock > 0
    /\ \E m \in Assets : bank[m].last_updated = 0
    /\ \E u \in Users : \E v \in Users \ {u} :
          /\ CollateralValue(user[v], AGoodPriceUpdate) > 0
          /\ DebtValue(user[v], AGoodPriceUpdate) > 0
          /\ DepositedAmount(user[u], USDC_MINT_ADDRESS) > 0
          /\ BorrowedAmount(user[u], SOL_MINT_ADDRESS) > 0

-----------------------------------------------------------------------------
(* C19 *)

\* an outcome in which the stages ran in the order checks, conversions,
\* transfer, ledger updates: a transfer was invoked only by a handler that got
\* past its checks and conversions, and an account was written only by one
\* that got past its transfer
StagesInOrder(r, bk, bk2, usr) ==
    /\ r.xfers # <<>> => r.stage \in {"Transfer", "Commit", "Done"}
    /\ r.stage \notin {"Commit", "Done"} => (r.bank = bk /\ r.bank2 = bk2 /\ r.user = usr)

\* C19: in every state an instruction can start from and for every input,
\* Borrow, Withdraw and Liquidate run their stages in order: none stops in its
\* checks or conversions having invoked a transfer, and none has written a
\* bank or user field without its transfers having succeeded.
C19_StageOrder ==
    AtEntry =>
    /\ \A i \in BorrowInputs(GoodPriceUpdates) :
          StagesInOrder(BorrowOutcome(i), bank[i.mint], bank[i.mint], user[i.u])
    /\ \A i \in WithdrawInputs(GoodPriceUpdates) :
          StagesInOrder(WithdrawOutcome(i, TRUE), bank[i.mint], bank[i.mint], user[i.u])
    /\ \A i \in LiquidateInputs(GoodPriceUpdates) :
          StagesInOrder(LiquidateOutcome(i, TRUE), bank[i.borrowed_mint],
                        bank[i.collateral_mint], user[i.u])

-----------------------------------------------------------------------------
(* C20 *)

\* the handler, when it succeeds, has stamped the bank and the user with the
\* time of the instruction
Stamped(r) ==
    r.res = "Ok" => (r.bank.last_updated = clock /\ r.user.last_updated = clock)

\* C20: in every state an instruction can start from and for every input, a
\* Withdraw that succeeds leaves last_updated of the target bank and of the
\* caller's position equal to the current time, as a Borrow that succeeds
\* does.
C20_WithdrawTimestamps ==
    AtEntry =>
    /\ \A i \in BorrowInputs({AGoodPriceUpdate}) : Stamped(BorrowOutcome(i))
    /\ \A i \in WithdrawInputs({AGoodPriceUpdate}) : Stamped(WithdrawOutcome(i, TRUE))

-----------------------------------------------------------------------------
(* C21 *)

\* C21: in every state reachable from empty banks and vaults, every bank has
\* total_borrows <= total_deposits.
C21_BorrowsWithinDeposits ==
    \A m \in Assets : bank[m].total_borrows <= bank[m].total_deposits

-----------------------------------------------------------------------------
(* C22 *)

\* C22: in every state reachable from empty banks and vaults, the vault of
\* every bank holds total_deposits - total_borrows.
C22_VaultSolvency ==
    \A m \in Assets : vault[m] = bank[m].total_deposits - bank[m].total_borrows

-----------------------------------------------------------------------------
(* C23 *)

\* C23: in every state reachable from empty banks and positions every bank
\* has total_deposits = total_deposit_shares and total_borrows =
\* total_borrow_shares, every user's deposited and borrowed amount of every
\* asset equals the shares of it, and no Withdraw, for any user, mint, number
\* of shares and quote, returns InsufficientFunds.
C23_OneToOne ==
    /\ \A m \in Assets :
          /\ bank[m].total_deposits = bank[m].total_deposit_shares
          /\ bank[m].total_borrows = bank[m].total_borrow_shares
          /\ \A u \in Users :
                /\ DepositedAmount(user[u], m) = DepositedShares(user[u], m)
                /\ BorrowedAmount(user[u], m) = BorrowedShares(user[u], m)
    /\ AtEntry =>
          \A i \in WithdrawInputs(AllQuotes) : \A oc \in OverflowChecks(i.price_update) :
              WithdrawOutcome(i, oc).res # "InsufficientFunds"

\* a liquidation has succeeded and left its user with a deposit and a debt,
\* after deposits, borrows and a liquidation across assets
C23_Witness ==
    /\ last.op = "Liquidate"
    /\ last.res = "Ok"
    /\ \E u \in Users :
          /\ DepositedShares(user[u], SOL_MINT_ADDRESS) > 0
          /\ BorrowedShares(user[u], USDC_MINT_ADDRESS) > 0
          /\ bank[USDC_MINT_ADDRESS].total_borrows
                 = SumOver(Users, [v \in Users |-> user[v].borrowed_usdc])
          /\ bank[USDC_MINT_ADDRESS].total_borrows < MaxTotal

-----------------------------------------------------------------------------
(* C24 *)

\* C24: in every state an instruction can start from and for every input, a
\* Borrow that succeeds leaves the borrower's debt over all assets, valued at
\* the quotes of that Borrow, at most floor(collateral value * max_ltv / 100),
\* max_ltv being that of the bank borrowed from.
C24_CumulativeDebt ==
    AtEntry =>
    \A i \in BorrowInputs(GoodPriceUpdates) :
        LET r == BorrowOutcome(i)
        IN  r.res = "Ok" =>
                DebtValue(r.user, i.price_update)
                    <= Percent(CollateralValue(r.user, i.price_update), bank[i.mint].max_ltv)

-----------------------------------------------------------------------------
(* C25 *)

\* C25: in every state an instruction can start from and for every input with
\* fresh positive quotes, a Liquidate that succeeds has transferred to the
\* liquidator a seize amount whose value is at most
\* floor(repay amount * price of the borrowed asset * (100 + bonus) / 100),
\* the repay amount being what the liquidator transferred in and the bonus
\* that of the collateral bank; a repay amount of 0 seizes 0.
C25_SeizeWithinRepaid ==
    AtEntry =>
    \A i \in LiquidateInputs(GoodPriceUpdates) :
        LET r == LiquidateOutcome(i, TRUE)
            repay_amount_native == r.xfers[1].amount
            seize_amount_native == r.xfers[2].amount
        IN  r.res = "Ok" =>
                /\ seize_amount_native * PriceOf(i.price_update, i.collateral_mint)
                       <= Percent(repay_amount_native
                                      * PriceOf(i.price_update, i.borrowed_mint),
                                  100 + bank[i.collateral_mint].liquidation_bonus)
                /\ repay_amount_native = 0 => seize_amount_native = 0

-----------------------------------------------------------------------------
(* C26 *)

\* C26: in every state an instruction can start from, for every Withdraw that
\* succeeds for a user who owes a debt, a Liquidate of that user run next at
\* the same quotes returns PositionHealthy, for every borrowed bank and every
\* collateral bank.
C26_WithdrawLiquidateAgree ==
    AtEntry =>
    \A i \in WithdrawInputs({HighSolPriceUpdate}) :
        LET r == WithdrawOutcome(i, TRUE)
            banks == [bank EXCEPT ![i.mint] = r.bank]
            vaults == ApplyTransfers(vault, r.xfers)
        IN  (r.res = "Ok" /\ ~NoDebt(user[i.u])) =>
                \A bm \in Assets, cm \in Assets :
                    process_liquidate(banks[bm], banks[cm], r.user, bm, cm,
                                      i.price_update, vaults, 0, TRUE).res
                        = "PositionHealthy"

====
